---- MODULE Spec2Model ----
(***************************************************************************)
(* Model of src/main.py: PinterestDownloader.  The ledger (two hash sets,  *)
(* the JSON store .pinterest_db.json and the output directory), the        *)
(* discovery loop scroll_to_load_all_pins and the per-pin loop of          *)
(* download_images_from_board.                                             *)
(*                                                                         *)
(* A string (file name, hash) is a sequence of tokens; "_" and "." are     *)
(* tokens of their own, so that split('_'), split('.') and endswith() are  *)
(* computed on the name as the code computes them.                         *)
(***************************************************************************)
EXTENDS Integers, Sequences, FiniteSets, TLC

VARIABLES
    board,              \* the board: the img src of each of its pins, in order
    faults,             \* whether page and file operations may raise, and the process
                        \* be killed, in this world
    churn,              \* whether the page never settles: each scroll may render any
                        \* range of the board's pins
    site,               \* what the site serves for an img src: [size, name], the
                        \* artifact's size in bytes and its suggested_filename
    files,              \* names of the files in output_folder (db_file apart)
    db,                 \* contents of db_file (.pinterest_db.json)
    downloaded_hashes,  \* self.downloaded_hashes
    skipped_hashes,     \* self.skipped_hashes
    run,                \* which process run this is (1 = first)
    pc,                 \* position in download_images_from_board
    page,               \* where the browser page is: "board", "detail", "other"
    dom,                \* board positions of the pin nodes now rendered: [lo, hi]
    scrolls, consecutive_no_change, last_count,   \* scroll_to_load_all_pins locals
    total_pins, idx,    \* len(pins), loop index (0-based)
    downloaded, skipped, skipped_small, failed,   \* the four counters
    img_hash,           \* hash of the open pin's image, NoHash before it is read
    more_button,        \* locator chosen for the menu button
    download_button,    \* locator chosen for the download action
    file_size,          \* os.path.getsize(temp_path), -1 before it is read
    handed,             \* history: the hashes read from a detail view this run, in order
    interrupted         \* history: an operator interrupt (KeyboardInterrupt) was
                        \* delivered to this run

vars == << board, faults, churn, site, files, db, downloaded_hashes, skipped_hashes,
           run, pc, page, dom, scrolls, consecutive_no_change, last_count,
           total_pins, idx, downloaded, skipped, skipped_small, failed,
           img_hash, more_button, download_button, file_size, handed,
           interrupted >>

env_vars == << board, faults, churn, site >>
disk_vars == << files, db >>
ledger_vars == << downloaded_hashes, skipped_hashes >>
scroll_vars == << scrolls, consecutive_no_change, last_count >>
counter_vars == << downloaded, skipped, skipped_small, failed >>

-----------------------------------------------------------------------------
(* Bounds of the model *)

MaxPins == 2
MaxRuns == 2
MaxFiles == 2

(* Program constants *)

max_scrolls == 100
no_change_limit == 5
low_count == 50
threshold_kb == 70
bytes_per_kb == 1024
num_more_selectors == 4
num_download_texts == 4

-----------------------------------------------------------------------------
(* Strings *)

Urls == {"u1", "u2"}

\* get_image_hash: md5(img_url).hexdigest()[:12]; a digest is hex digits only,
\* one token holding neither "_" nor ".".
get_image_hash(img_url) ==
    IF img_url = "u1" THEN << "a1b2" >> ELSE << "c3d4" >>

NoHash == << "?" >>

Names == { << "x", ".", "jpg" >>,
           << "x", ".", "JPG" >>,
           << "x" >> }

image_suffixes == {"jpg", "jpeg", "png", "gif", "webp"}

db_file_name == << ".", "pinterest", "_", "db", ".", "json" >>

temp_path(h) == << "temp", "_" >> \o h

\* a rename that leaves the artifact under its temporary name
final_path_Temp(h, original_name) == temp_path(h)

final_path(h, original_name) == h \o << "_" >> \o original_name

\* filename.endswith(('.jpg', '.jpeg', '.png', '.gif', '.webp'))
EndsWithImageSuffix(filename) ==
    /\ Len(filename) >= 2
    /\ filename[Len(filename) - 1] = "."
    /\ filename[Len(filename)] \in image_suffixes

Contains(filename, sep) == \E i \in 1..Len(filename) : filename[i] = sep

\* filename.split(sep)[0]: what precedes the first sep (all of it when there is none)
SplitFirst(filename, sep) ==
    IF Contains(filename, sep)
    THEN LET first == CHOOSE i \in 1..Len(filename) :
                          /\ filename[i] = sep
                          /\ \A j \in 1..(i - 1) : filename[j] # sep
         IN  SubSeq(filename, 1, first - 1)
    ELSE filename

\* a prefix cut at the first "." whatever the name holds
hash_part_DotOnly(filename) == SplitFirst(filename, ".")

\* filename.split('_')[0] if '_' in filename else filename.split('.')[0]
hash_part(filename) ==
    IF Contains(filename, "_") THEN SplitFirst(filename, "_")
                               ELSE SplitFirst(filename, ".")

-----------------------------------------------------------------------------
(* The JSON store *)

Range(s) == {s[i] : i \in 1..Len(s)}

\* list(a_set): the elements in some order
RECURSIVE SetToList(_)
SetToList(S) ==
    IF S = {} THEN << >>
    ELSE LET x == CHOOSE y \in S : TRUE
         IN  << x >> \o SetToList(S \ {x})

NoDb == [kind |-> "missing", downloaded |-> << >>, skipped |-> << >>]

\* db_file cut short by a failed write, or holding no JSON document
CorruptDb == [kind |-> "corrupt", downloaded |-> << >>, skipped |-> << >>]

\* a save that writes the skipped hashes under both keys
save_database_SkippedTwice(dl, sk) ==
    [kind |-> "object", downloaded |-> SetToList(sk), skipped |-> SetToList(sk)]

\* save_database: what json.dump writes for the two sets
save_database(dl, sk) ==
    [kind |-> "object", downloaded |-> SetToList(dl), skipped |-> SetToList(sk)]

\* os.listdir(output_folder): db_file lives in the same folder
ListDir(fs, store) ==
    fs \cup (IF store.kind = "missing" THEN {} ELSE {db_file_name})

FileHashes(fs, store) ==
    {hash_part(f) : f \in {g \in ListDir(fs, store) : EndsWithImageSuffix(g)}}

\* a load that takes nothing from the JSON store
LoadDownloaded_FilesOnly(fs, store) == FileHashes(fs, store)

\* load_database on a fresh object: the two sets after it.  Line 33 assigns
\* downloaded_hashes before line 34 builds set(db.get('skipped', [])): when that
\* raises (kind "object_bad_skipped": the value under 'skipped' is a number or
\* null) the first assignment stands.  With the value under 'downloaded' not
\* iterable (kind "object_bad_downloaded") line 33 raises and line 34 is not
\* reached; with a document that is no object (kind "not_object") db.get raises.
LoadDownloaded(fs, store) ==
    (IF store.kind \in {"object", "object_bad_skipped"}
     THEN Range(store.downloaded) ELSE {})
        \cup FileHashes(fs, store)

LoadSkipped(fs, store) ==
    IF store.kind = "object" THEN Range(store.skipped) ELSE {}

-----------------------------------------------------------------------------
(* The page *)

NoButton == [selector |-> 0, visible |-> FALSE]      \* None

ProbeOutcomes ==
    {"visible", "hidden"} \cup (IF faults THEN {"unlocated", "interrupt"} ELSE {})

\* for selector in selectors: try: b = page.locator(selector).first;
\*                                 if b.is_visible(): break
\*                            except: continue
\* "unlocated": page.locator raised, nothing assigned; "hidden": assigned, then
\* is_visible answered False or raised; "interrupt": assigned, then KeyboardInterrupt
\* was raised in is_visible, which the bare except takes like any other.
RECURSIVE LocateFrom(_, _, _, _)
LocateFrom(i, n, outcome, button) ==
    IF i > n THEN button
    ELSE IF outcome[i] = "unlocated" THEN LocateFrom(i + 1, n, outcome, button)
    ELSE IF outcome[i] = "visible" THEN [selector |-> i, visible |-> TRUE]
    ELSE LocateFrom(i + 1, n, outcome, [selector |-> i, visible |-> FALSE])

Locate(n, outcome) == LocateFrom(1, n, outcome, NoButton)

\* a probe that was made (no earlier one broke the loop) took an interrupt
Swallowed(n, outcome) ==
    \E i \in 1..n : /\ outcome[i] = "interrupt"
                    /\ \A j \in 1..(i - 1) : outcome[j] # "visible"

\* what the loop over n selectors can end with: the button it leaves assigned, and
\* whether it swallowed an interrupt
Probed(n) ==
    {[button |-> Locate(n, outcome), swallowed |-> Swallowed(n, outcome)] :
        outcome \in [1..n -> ProbeOutcomes]}

NoDom == [lo |-> 1, hi |-> 0]

Count(d) == d.hi - d.lo + 1

N == Len(board)

Views == {v \in [lo : 1..N, hi : 1..N] : v.lo <= v.hi}

\* a fresh load of the board renders its first pins
FreshViews == {v \in Views : v.lo = 1}

\* infinite scroll: a scroll to the bottom renders at least one more pin while the
\* board has more, and nodes above may be recycled; a page that never settles
\* renders any range
Scrolled(d) ==
    IF churn THEN Views
    ELSE {v \in Views : v.lo >= d.lo /\ v.hi >= d.hi /\ (d.hi < N => v.hi > d.hi)}

\* after a wait more pins may have been rendered below
Waited(d) == {v \in Views : v.lo = d.lo /\ v.hi >= d.hi}

\* a filter that rejects nothing
TooSmall_Never(size) == FALSE

\* a filter that also rejects an artifact of exactly 70 KB
TooSmall_Inclusive(size) == size <= threshold_kb * bytes_per_kb

\* file_size_kb = file_size / 1024; file_size_kb < 70
TooSmall(size) == size < threshold_kb * bytes_per_kb

-----------------------------------------------------------------------------
(* Initial states: a fresh output folder, the board open in the browser *)

\* the boards of up to MaxPins pins; the two srcs are interchangeable, so the first
\* pin shows "u1"
Boards == {b \in UNION {[1..n -> Urls] : n \in 1..MaxPins} : b[1] = "u1"}

\* images one byte under the threshold, and at the threshold under each name
BoundaryImages ==
    {[size |-> threshold_kb * bytes_per_kb - 1, name |-> << "x", ".", "jpg" >>]}
        \cup {[size |-> threshold_kb * bytes_per_kb, name |-> n] : n \in Names}

DefaultImage == [size |-> threshold_kb * bytes_per_kb, name |-> << "x", ".", "jpg" >>]

\* the state in which download_images_from_board enters scroll_to_load_all_pins
StartSession ==
    /\ pc = "scroll"
    /\ page = "board"
    /\ dom \in FreshViews
    /\ scrolls = 0 /\ consecutive_no_change = 0 /\ last_count = 0
    /\ total_pins = 0 /\ idx = 0
    /\ downloaded = 0 /\ skipped = 0 /\ skipped_small = 0 /\ failed = 0
    /\ img_hash = NoHash
    /\ more_button = NoButton /\ download_button = NoButton
    /\ file_size = -1
    /\ handed = << >>
    /\ interrupted = FALSE

Init ==
    /\ board \in Boards
    /\ faults \in BOOLEAN
    /\ churn = FALSE
    /\ site \in [Urls -> BoundaryImages \cup {DefaultImage}]
    /\ \A u \in Urls \ Range(board) : site[u] = DefaultImage
    /\ files = {}
    /\ db = NoDb
    /\ downloaded_hashes = LoadDownloaded(files, db)
    /\ skipped_hashes = LoadSkipped(files, db)
    /\ run = 1
    /\ StartSession

-----------------------------------------------------------------------------
(* scroll_to_load_all_pins *)

\* a loop that only a settled pin count ends
loop_condition_Unbounded(s, c) == c < no_change_limit

\* line 70: while scrolls < max_scrolls and consecutive_no_change < 5
loop_condition(s, c) == s < max_scrolls /\ c < no_change_limit

\* one iteration of the while loop (lines 70-91)
ScrollStep ==
    /\ pc = "scroll"
    /\ loop_condition(scrolls, consecutive_no_change)
    /\ \/ \* an exception: break
          /\ faults
          /\ pc' = "final"
          /\ UNCHANGED << dom, scroll_vars >>
       \/ LET current_count == Count(dom)
              no_change == IF current_count # last_count THEN 0
                           ELSE consecutive_no_change + 1
          IN  /\ consecutive_no_change' = no_change
              /\ dom' \in Scrolled(dom)
              /\ last_count' = current_count
              /\ scrolls' = scrolls + 1
              /\ pc' = IF loop_condition(scrolls + 1, no_change)
                       THEN "scroll" ELSE "final"
    /\ UNCHANGED << env_vars, interrupted, disk_vars, ledger_vars, run, page, total_pins, idx,
                    counter_vars, img_hash, more_button, download_button,
                    file_size, handed >>

\* lines 93-109, then 202-217 of download_images_from_board
FinalPins ==
    /\ pc = "final"
    /\ \E final_pins \in (IF Count(dom) < low_count THEN Waited(dom) ELSE {dom})
                             \cup (IF faults THEN {NoDom} ELSE {}) :
                                                 \* NoDom: an exception, return []
          /\ dom' = IF final_pins = NoDom THEN dom ELSE final_pins
          /\ total_pins' = Count(final_pins)
          /\ pc' = IF Count(final_pins) = 0 THEN "done" ELSE "loop"
    /\ scrolls' = 0 /\ consecutive_no_change' = 0 /\ last_count' = 0
                                                 \* not read again
    /\ UNCHANGED << env_vars, interrupted, disk_vars, ledger_vars, run, page, idx,
                    counter_vars, img_hash, more_button, download_button,
                    file_size, handed >>

-----------------------------------------------------------------------------
(* download_images_from_board: the loop over range(total_pins) *)

\* a loop that ends at the first pin whose transaction has concluded
Advance_EndsSession ==
    /\ idx' = idx + 1
    /\ pc' = "done"

\* the for loop takes its next index, or ends: the summary, browser.close()
Advance ==
    /\ idx' = idx + 1
    /\ pc' = IF idx + 1 < total_pins THEN "loop" ELSE "done"

temp == temp_path(img_hash)

\* a loop head that goes on to the pins wherever the page is
NavigateBack_Never ==
    /\ pc = "loop"
    /\ pc' = "query"
    /\ UNCHANGED << env_vars, interrupted, disk_vars, ledger_vars, run, page, dom,
                    scroll_vars, total_pins, idx, counter_vars,
                    img_hash, more_button, download_button, file_size, handed >>

\* lines 222-228: if board_page_url not in page.url, goto(board_page_url) and wait
\* for a pin
NavigateBack ==
    /\ pc = "loop"
    /\ \/ page = "board" /\ UNCHANGED << page, dom >>
       \/ page # "board" /\ page' = "board" /\ dom' \in FreshViews
    /\ pc' = "query"
    /\ UNCHANGED << env_vars, interrupted, disk_vars, ledger_vars, run,
                    scroll_vars, total_pins, idx, counter_vars,
                    img_hash, more_button, download_button, file_size, handed >>

\* lines 230-248: re-query the pins, click pin idx
OpenPin ==
    /\ pc = "query"
    /\ \E current_pins \in (IF idx >= Count(dom) THEN Waited(dom) ELSE {dom}) :
            \/ \* "Pin no longer available": failed += 1; continue
               /\ idx >= Count(current_pins)
               /\ failed' = failed + 1
               /\ page' = "board" /\ dom' = current_pins
               /\ interrupted' = interrupted
               /\ Advance
            \/ \* pin.click() opens the detail view of pin idx of the rendered pins
               /\ idx < Count(current_pins)
               /\ page' = board[current_pins.lo + idx] /\ dom' = NoDom
               /\ pc' = "wait_img"
               /\ UNCHANGED << idx, failed, interrupted >>
            \/ \* scroll_into_view_if_needed or click raises: the handler of line 367,
               \* the page still on the board
               /\ faults
               /\ idx < Count(current_pins)
               /\ failed' = failed + 1
               /\ page' = "board" /\ dom' = current_pins
               /\ interrupted' = interrupted
               /\ Advance
            \/ \* the click opens the detail view and the wait of line 248 raises: the
               \* handler of line 367, its goto (line 374) succeeding, raising, or
               \* taking a KeyboardInterrupt (except: pass)
               /\ faults
               /\ idx < Count(current_pins)
               /\ failed' = failed + 1
               /\ \/ page' = "board" /\ dom' \in FreshViews /\ interrupted' = interrupted
                  \/ page' = "other" /\ dom' = NoDom /\ interrupted' \in {interrupted, TRUE}
               /\ Advance
    /\ UNCHANGED << env_vars, disk_vars, ledger_vars, run, scroll_vars, total_pins,
                    downloaded, skipped, skipped_small,
                    img_hash, more_button, download_button, file_size, handed >>

\* line 225 raises: the handler of line 367, failed += 1, goto once more (lines 372-377)
OpenPinGotoFails ==
    /\ pc = "loop"
    /\ page # "board"
    /\ faults
    /\ failed' = failed + 1
    /\ \/ page' = "board" /\ dom' \in FreshViews /\ interrupted' = interrupted
       \/ page' = "other" /\ dom' = NoDom /\ interrupted' = interrupted
       \/ \* KeyboardInterrupt in the goto of line 374: except: pass
          page' = "other" /\ dom' = NoDom /\ interrupted' = TRUE
    /\ Advance
    /\ UNCHANGED << env_vars, disk_vars, ledger_vars, run, scroll_vars, total_pins,
                    downloaded, skipped, skipped_small,
                    img_hash, more_button, download_button, file_size, handed >>

\* a check that forgets what was marked too small
previously_too_small_Never(h) == FALSE

\* line 261: elif img_hash in self.skipped_hashes
previously_too_small(h) == h \in skipped_hashes

\* lines 250-265: wait for the image, hash its src, consult the two sets
ExtractHash ==
    /\ pc = "wait_img"
    /\ \/ \* timeout or error: lines 346-352
          /\ faults
          /\ failed' = failed + 1
          /\ pc' = "return"
          /\ UNCHANGED << skipped, skipped_small, img_hash, handed >>
       \/ LET h == get_image_hash(page)
          IN  /\ img_hash' = h
              /\ handed' = Append(handed, h)
              /\ IF h \in downloaded_hashes
                 THEN /\ skipped' = skipped + 1
                      /\ pc' = "return"
                      /\ UNCHANGED << skipped_small, failed >>
                 ELSE IF previously_too_small(h)
                 THEN /\ skipped_small' = skipped_small + 1
                      /\ pc' = "return"
                      /\ UNCHANGED << skipped, failed >>
                 ELSE /\ pc' = "locate_more"
                      /\ UNCHANGED << skipped, skipped_small, failed >>
    /\ UNCHANGED << env_vars, interrupted, disk_vars, ledger_vars, run, page, dom, scroll_vars,
                    total_pins, idx, downloaded,
                    more_button, download_button, file_size >>

\* lines 266-285
LocateMore ==
    /\ pc = "locate_more"
    /\ \E probed \in Probed(num_more_selectors) :
          /\ more_button' = probed.button
          /\ interrupted' = (interrupted \/ probed.swallowed)
          /\ IF more_button' = NoButton
             THEN failed' = failed + 1 /\ pc' = "return"
             ELSE failed' = failed /\ pc' = "click_more"
    /\ UNCHANGED << env_vars, disk_vars, ledger_vars, run, page, dom, scroll_vars,
                    total_pins, idx, downloaded, skipped, skipped_small,
                    img_hash, download_button, file_size, handed >>

\* whether click() on a located button may raise: its element never comes, or a fault
MayRaise(button) == faults \/ ~button.visible

\* lines 287-288: click() waits for the element, which may yet come, and raises
\* when it does not
ClickMore ==
    /\ pc = "click_more"
    /\ \/ pc' = "locate_dl" /\ failed' = failed
       \/ MayRaise(more_button) /\ pc' = "return" /\ failed' = failed + 1
    /\ more_button' = NoButton           \* not read again
    /\ UNCHANGED << env_vars, interrupted, disk_vars, ledger_vars, run, page, dom, scroll_vars,
                    total_pins, idx, downloaded, skipped, skipped_small,
                    img_hash, download_button, file_size, handed >>

\* lines 290-310
LocateDownload ==
    /\ pc = "locate_dl"
    /\ \E probed \in Probed(num_download_texts) :
          /\ download_button' = probed.button
          /\ interrupted' = (interrupted \/ probed.swallowed)
          /\ IF download_button' = NoButton
             THEN failed' = failed + 1 /\ pc' = "return"
             ELSE failed' = failed /\ pc' = "trigger"
    /\ UNCHANGED << env_vars, disk_vars, ledger_vars, run, page, dom, scroll_vars,
                    total_pins, idx, downloaded, skipped, skipped_small,
                    img_hash, more_button, file_size, handed >>

\* lines 312-318: expect_download, click, save_as(temp_path)
TriggerDownload ==
    /\ pc = "trigger"
    /\ \/ /\ files' = files \cup {temp}
          /\ pc' = "measure" /\ failed' = failed
       \/ /\ MayRaise(download_button)
          /\ files' = files
          /\ pc' = "return" /\ failed' = failed + 1
    /\ download_button' = NoButton       \* not read again
    /\ UNCHANGED << env_vars, interrupted, db, ledger_vars, run, page, dom, scroll_vars,
                    total_pins, idx, downloaded, skipped, skipped_small,
                    img_hash, more_button, file_size, handed >>

\* lines 320-323
MeasureSize ==
    /\ pc = "measure"
    /\ \/ /\ file_size' = site[page].size
          /\ pc' = IF TooSmall(file_size') THEN "remove" ELSE "rename"
          /\ failed' = failed
       \/ \* os.path.getsize raises
          /\ faults
          /\ pc' = "return" /\ failed' = failed + 1
          /\ UNCHANGED file_size
    /\ UNCHANGED << env_vars, interrupted, disk_vars, ledger_vars, run, page, dom, scroll_vars,
                    total_pins, idx, downloaded, skipped, skipped_small,
                    img_hash, more_button, download_button, handed >>

\* line 324
RemoveTemp ==
    /\ pc = "remove"
    /\ \/ files' = files \ {temp} /\ pc' = "add_skipped" /\ failed' = failed
       \/ \* os.remove raises
          faults /\ files' = files /\ pc' = "return" /\ failed' = failed + 1
    /\ UNCHANGED << env_vars, interrupted, db, ledger_vars, run, page, dom, scroll_vars,
                    total_pins, idx, downloaded, skipped, skipped_small,
                    img_hash, more_button, download_button, file_size, handed >>

\* line 325
AddSkipped ==
    /\ pc = "add_skipped"
    /\ skipped_hashes' = skipped_hashes \cup {img_hash}
    /\ pc' = "save_skipped"
    /\ UNCHANGED << env_vars, interrupted, disk_vars, downloaded_hashes, run, page, dom, scroll_vars,
                    total_pins, idx, counter_vars,
                    img_hash, more_button, download_button, file_size, handed >>

\* save_database (lines 47-54) as called from lines 326 and 338; open(.., 'w') or
\* json.dump may raise, the file then being as it was or cut short
SaveDatabase(ok_pc) ==
    \/ /\ db' = save_database(downloaded_hashes, skipped_hashes)
       /\ pc' = ok_pc /\ failed' = failed
    \/ /\ faults
       /\ db' \in {db, CorruptDb}
       /\ pc' = "return" /\ failed' = failed + 1

\* line 326
SaveSkipped ==
    /\ pc = "save_skipped"
    /\ SaveDatabase("count_small")
    /\ UNCHANGED << env_vars, interrupted, files, ledger_vars, run, page, dom, scroll_vars,
                    total_pins, idx, downloaded, skipped, skipped_small,
                    img_hash, more_button, download_button, file_size, handed >>

\* lines 327-329, 344; wait_for_timeout may raise after the count
CountSmall ==
    /\ pc = "count_small"
    /\ skipped_small' = skipped_small + 1
    /\ failed' \in {failed} \cup (IF faults THEN {failed + 1} ELSE {})
    /\ pc' = "return"
    /\ UNCHANGED << env_vars, interrupted, disk_vars, ledger_vars, run, page, dom, scroll_vars,
                    total_pins, idx, downloaded, skipped,
                    img_hash, more_button, download_button, file_size, handed >>

\* lines 331-335: suggested_filename, os.rename(temp_path, final_path)
RenameTemp ==
    /\ pc = "rename"
    /\ \/ /\ files' = (files \ {temp}) \cup {final_path(img_hash, site[page].name)}
          /\ pc' = "add_downloaded" /\ failed' = failed
       \/ \* suggested_filename or os.rename raises
          faults /\ files' = files /\ pc' = "return" /\ failed' = failed + 1
    /\ UNCHANGED << env_vars, interrupted, db, ledger_vars, run, page, dom, scroll_vars,
                    total_pins, idx, downloaded, skipped, skipped_small,
                    img_hash, more_button, download_button, file_size, handed >>

\* line 337
AddDownloaded ==
    /\ pc = "add_downloaded"
    /\ downloaded_hashes' = downloaded_hashes \cup {img_hash}
    /\ pc' = "save_downloaded"
    /\ UNCHANGED << env_vars, interrupted, disk_vars, skipped_hashes, run, page, dom, scroll_vars,
                    total_pins, idx, counter_vars,
                    img_hash, more_button, download_button, file_size, handed >>

\* line 338
SaveDownloaded ==
    /\ pc = "save_downloaded"
    /\ SaveDatabase("count_downloaded")
    /\ UNCHANGED << env_vars, interrupted, files, ledger_vars, run, page, dom, scroll_vars,
                    total_pins, idx, downloaded, skipped, skipped_small,
                    img_hash, more_button, download_button, file_size, handed >>

\* lines 340-344
CountDownloaded ==
    /\ pc = "count_downloaded"
    /\ downloaded' = downloaded + 1
    /\ failed' \in {failed} \cup (IF faults THEN {failed + 1} ELSE {})
    /\ pc' = "return"
    /\ UNCHANGED << env_vars, interrupted, disk_vars, ledger_vars, run, page, dom, scroll_vars,
                    total_pins, idx, skipped, skipped_small,
                    img_hash, more_button, download_button, file_size, handed >>

\* lines 354-365: go_back, else goto(board_page_url), else pass
ReturnToBoard ==
    /\ pc = "return"
    /\ \/ \* go_back and the wait for a pin succeed
          page' = "board" /\ dom' \in Views /\ interrupted' = interrupted
       \/ \* they raise, goto(board_page_url) succeeds
          faults /\ page' = "board" /\ dom' \in FreshViews /\ interrupted' = interrupted
       \/ \* both raise: pass
          faults /\ page' = "other" /\ dom' = NoDom /\ interrupted' = interrupted
       \/ \* they raise, KeyboardInterrupt in the goto of line 362: except: pass
          faults /\ page' = "other" /\ dom' = NoDom /\ interrupted' = TRUE
    /\ pc' = "concluded"
    /\ UNCHANGED << env_vars, disk_vars, ledger_vars, run, scroll_vars,
                    total_pins, idx, counter_vars,
                    img_hash, more_button, download_button, file_size, handed >>

\* the end of the loop body: the locals of this pin are not read again
NextPin ==
    /\ pc = "concluded"
    /\ img_hash' = NoHash /\ file_size' = -1
    /\ Advance
    /\ UNCHANGED << env_vars, interrupted, disk_vars, ledger_vars, run, page, dom, scroll_vars,
                    total_pins, counter_vars, more_button, download_button, handed >>

-----------------------------------------------------------------------------
(* The process is killed (SIGKILL, power loss) *)

\* the positions of a session that is running
Running == {"scroll", "final", "loop", "query", "wait_img", "locate_more", "click_more",
            "locate_dl", "trigger", "measure", "remove", "add_skipped",
            "save_skipped", "count_small", "rename", "add_downloaded",
            "save_downloaded", "count_downloaded", "return", "concluded"}

\* Nothing of the process is left but the output folder.  Killed inside
\* save_database (lines 53-54), after open(db_file, 'w') has cut the file to
\* nothing and before json.dump's text is flushed, db_file holds no JSON document.
Crash ==
    /\ pc \in Running
    /\ faults
    /\ db' \in {db} \cup (IF pc \in {"save_skipped", "save_downloaded"}
                          THEN {CorruptDb} ELSE {})
    /\ pc' = "crashed"
    /\ downloaded_hashes' = {} /\ skipped_hashes' = {}
    /\ page' = "other" /\ dom' = NoDom
    /\ scrolls' = 0 /\ consecutive_no_change' = 0 /\ last_count' = 0
    /\ total_pins' = 0 /\ idx' = 0
    /\ downloaded' = 0 /\ skipped' = 0 /\ skipped_small' = 0 /\ failed' = 0
    /\ img_hash' = NoHash
    /\ more_button' = NoButton /\ download_button' = NoButton
    /\ file_size' = -1
    /\ handed' = << >>
    /\ interrupted' = FALSE
    /\ UNCHANGED << env_vars, files, run >>

-----------------------------------------------------------------------------
(* The operator interrupts (Ctrl-C) *)

\* KeyboardInterrupt raised where no bare except stands around it: it passes the
\* 'except Exception' handlers of the loop, leaves the 'with sync_playwright()'
\* block (the browser is released) and is reported by main (lines 450-451), where
\* the process ends.  Raised inside save_database, db_file is left cut short.
Interrupt ==
    /\ pc \in Running
    /\ faults
    /\ db' \in {db} \cup (IF pc \in {"save_skipped", "save_downloaded"}
                          THEN {CorruptDb} ELSE {})
    /\ pc' = "interrupted"
    /\ interrupted' = TRUE
    /\ downloaded_hashes' = {} /\ skipped_hashes' = {}
    /\ page' = "other" /\ dom' = NoDom
    /\ scrolls' = 0 /\ consecutive_no_change' = 0 /\ last_count' = 0
    /\ total_pins' = 0 /\ idx' = 0
    /\ downloaded' = 0 /\ skipped' = 0 /\ skipped_small' = 0 /\ failed' = 0
    /\ img_hash' = NoHash
    /\ more_button' = NoButton /\ download_button' = NoButton
    /\ file_size' = -1
    /\ handed' = << >>
    /\ UNCHANGED << env_vars, files, run >>

-----------------------------------------------------------------------------
(* main() run again on the same output folder and board *)

\* PinterestDownloader.__init__ (lines 19-25), then download_images_from_board
Restart ==
    /\ pc \in {"done", "crashed", "interrupted"}
    /\ run < MaxRuns
    /\ run' = run + 1
    /\ downloaded_hashes' = LoadDownloaded(files, db)
    /\ skipped_hashes' = LoadSkipped(files, db)
    /\ pc' = "scroll"
    /\ page' = "board"
    /\ dom' \in FreshViews
    /\ scrolls' = 0 /\ consecutive_no_change' = 0 /\ last_count' = 0
    /\ total_pins' = 0 /\ idx' = 0
    /\ downloaded' = 0 /\ skipped' = 0 /\ skipped_small' = 0 /\ failed' = 0
    /\ img_hash' = NoHash
    /\ more_button' = NoButton /\ download_button' = NoButton
    /\ file_size' = -1
    /\ handed' = << >>
    /\ interrupted' = FALSE
    /\ UNCHANGED << env_vars, disk_vars >>

-----------------------------------------------------------------------------
(* load_database on an output folder that already holds files *)

\* names a folder may hold before the first run
FolderNames ==
    { << "abc123", "_", "x", ".", "jpg" >>,
      << "abc123", "_", "x", ".", "JPG" >>,
      << "abc123", "_", "x" >>,
      << "abc123", "_", "x", ".", "bmp" >>,
      << "def456", "_", "y", "_", "z", ".", "webp" >>,
      << "def456", ".", "png" >>,
      << "temp", "_", "def456" >> }

\* a JSON store that is missing, empty (zero bytes: json.load raises), or holds
\* two empty lists
EmptyStores == {NoDb, CorruptDb, save_database({}, {})}

\* a JSON store that parses but is not what save_database writes: a document that
\* is no object (a list, a number), and objects whose value under 'skipped', or
\* under 'downloaded', is a number or null
MalformedStores ==
    { [kind |-> "not_object", downloaded |-> << >>, skipped |-> << >>],
      [kind |-> "object_bad_skipped",
       downloaded |-> << << "abc123" >> >>, skipped |-> << >>],
      [kind |-> "object_bad_downloaded",
       downloaded |-> << >>, skipped |-> << << "0f0f0f" >> >>] }

Stores ==
    EmptyStores \cup MalformedStores
        \cup {save_database({<< "abc123" >>}, {<< "0f0f0f" >>})}

\* PinterestDownloader.__init__ up to line 24: both sets empty, nothing loaded yet
InitLoad ==
    /\ files \in {fs \in SUBSET FolderNames : Cardinality(fs) <= MaxFiles}
    /\ db \in Stores
    /\ downloaded_hashes = {}
    /\ skipped_hashes = {}
    /\ pc = "init"
    /\ board = << "u1" >>
    /\ faults = FALSE
    /\ churn = FALSE
    /\ site = [u \in Urls |-> DefaultImage]
    /\ run = 1
    /\ page = "other"
    /\ dom = NoDom
    /\ scrolls = 0 /\ consecutive_no_change = 0 /\ last_count = 0
    /\ total_pins = 0 /\ idx = 0
    /\ downloaded = 0 /\ skipped = 0 /\ skipped_small = 0 /\ failed = 0
    /\ img_hash = NoHash
    /\ more_button = NoButton /\ download_button = NoButton
    /\ file_size = -1
    /\ handed = << >>
    /\ interrupted = FALSE

\* line 25: self.load_database()
LoadDatabase ==
    /\ pc = "init"
    /\ downloaded_hashes' = LoadDownloaded(files, db)
    /\ skipped_hashes' = LoadSkipped(files, db)
    /\ pc' = "loaded"
    /\ UNCHANGED << env_vars, interrupted, disk_vars, run, page, dom, scroll_vars, total_pins, idx,
                    counter_vars, img_hash, more_button, download_button,
                    file_size, handed >>

NextLoad == LoadDatabase

SpecLoad == InitLoad /\ [][NextLoad]_vars

-----------------------------------------------------------------------------
(* The session *)

Next ==
    \/ ScrollStep \/ FinalPins
    \/ NavigateBack \/ OpenPinGotoFails \/ OpenPin \/ ExtractHash
    \/ LocateMore \/ ClickMore \/ LocateDownload \/ TriggerDownload \/ MeasureSize
    \/ RemoveTemp \/ AddSkipped \/ SaveSkipped \/ CountSmall
    \/ RenameTemp \/ AddDownloaded \/ SaveDownloaded \/ CountDownloaded
    \/ ReturnToBoard \/ NextPin
    \/ Crash \/ Interrupt
    \/ Restart

Spec == Init /\ [][Next]_vars

-----------------------------------------------------------------------------
(* A session on a board of three pins, the last two showing the same image *)

\* pins of 50 KB, 100 KB and 100 KB; a fresh output folder
InitScenario ==
    /\ board = << "u1", "u2", "u2" >>
    /\ faults \in BOOLEAN
    /\ churn = FALSE
    /\ site = [u \in Urls |->
                 [size |-> (IF u = "u1" THEN 50 ELSE 100) * bytes_per_kb,
                  name |-> << "x", ".", "jpg" >>]]
    /\ files = {}
    /\ db = NoDb
    /\ downloaded_hashes = LoadDownloaded(files, db)
    /\ skipped_hashes = LoadSkipped(files, db)
    /\ run = 1
    /\ StartSession

SpecScenario == InitScenario /\ [][Next]_vars

-----------------------------------------------------------------------------
(* scroll_to_load_all_pins on a page that never settles *)

InitScroll ==
    /\ board \in Boards
    /\ faults \in BOOLEAN
    /\ churn = TRUE
    /\ site = [u \in Urls |-> DefaultImage]
    /\ files = {}
    /\ db = NoDb
    /\ downloaded_hashes = LoadDownloaded(files, db)
    /\ skipped_hashes = LoadSkipped(files, db)
    /\ run = 1
    /\ StartSession

NextScroll == ScrollStep \/ FinalPins

SpecScroll == InitScroll /\ [][NextScroll]_vars

-----------------------------------------------------------------------------
(* Properties *)

BoardHashes == {get_image_hash(board[i]) : i \in 1..Len(board)}

\* the positions from the first page interaction of a download to its commit
Downloading == {"locate_more", "click_more", "locate_dl", "trigger", "measure",
                "remove", "rename"}

\* the positions at which a transaction has written to the output folder
Writing == {"measure", "remove", "add_skipped", "save_skipped", "count_small",
            "rename", "add_downloaded", "save_downloaded", "count_downloaded"}

\* h is a Downloaded entry of the ledger as it lies on disk: listed in a readable
\* JSON store, or the part before the first "_" of an image file's name
OnDiskDownloaded(h) ==
    \/ db.kind = "object" /\ \E i \in 1..Len(db.downloaded) : db.downloaded[i] = h
    \/ \E f \in files :
          /\ Len(f) >= Len(h) + 3
          /\ SubSeq(f, 1, Len(h) + 1) = h \o << "_" >>
          /\ f[Len(f) - 1] = "." /\ f[Len(f)] \in image_suffixes

\* C1 as stated (in a world where no operation raises): a second session over the
\* same board records no new Downloaded entry and writes no file.
C1_Original ==
    (run > 1 /\ ~faults) => downloaded = 0 /\ pc \notin Writing

\* C1 as amended: in every session, a pin whose hash the ledger on disk holds as
\* Downloaded is never downloaded again, and when its hash is read it is counted
\* as already downloaded with the folder and the store left as they are.
C1_NoRedownload ==
    /\ [](pc \in Downloading => ~OnDiskDownloaded(img_hash))
    /\ [][(pc = "wait_img" /\ pc' # "wait_img" /\ OnDiskDownloaded(img_hash'))
             => /\ skipped' = skipped + 1
                /\ pc' = "return"
                /\ UNCHANGED << files, db, downloaded_hashes, skipped_hashes,
                                downloaded, skipped_small, failed >>]_vars

\* a second session skips a pin that the first one downloaded
C1_Witness ==
    /\ run = 2 /\ pc = "return" /\ skipped = 1
    /\ OnDiskDownloaded(img_hash)
    /\ downloaded = 0

\* the size threshold in bytes (71680)
ThresholdBytes == threshold_kb * bytes_per_kb

\* the files whose name starts with the hash of the open pin
HashFiles ==
    {f \in files : Len(f) > Len(img_hash) /\ SubSeq(f, 1, Len(img_hash)) = img_hash}

C3_NoOrphanTemp ==
    pc = "concluded" => \A u \in Urls : temp_path(get_image_hash(u)) \notin files

\* C4: the loop goes on to a next pin only with the page on the board; a return to
\* the board that fails (go_back and goto both) ends the session instead.
C4_NavigationFatal ==
    pc = "loop" => page = "board"

\* C5: a menu button or download action is clicked only when one of its locator
\* strategies resolved to a visible element; otherwise the transaction ends there.
C5_NoClickUnresolved ==
    /\ pc = "click_more" => more_button.visible
    /\ pc = "trigger" => download_button.visible

\* C6 (in a world where no operation raises): on a board of N pins with N distinct
\* hashes, a finished session has handed exactly those N hashes to a transaction,
\* each once.
C6_Complete ==
    (/\ pc = "done" /\ ~faults
     /\ Cardinality(BoardHashes) = Len(board))
        => /\ Len(handed) = Len(board)
           /\ Range(handed) = BoardHashes

\* C7: a hash that was handed to a transaction earlier in the session does not start
\* a menu/download interaction again.
C7_OncePerHash ==
    pc = "locate_more" =>
        \A i \in 1..(Len(handed) - 1) : handed[i] # img_hash

\* C8: right after a hash is added to downloaded_hashes and save_database has
\* returned, a load from the JSON store alone (an empty folder beside it) yields that
\* hash and every earlier entry of both sets.
C8_RoundTrip ==
    pc = "count_downloaded" =>
        /\ img_hash \in LoadDownloaded({}, db)
        /\ LoadDownloaded({}, db) = downloaded_hashes
        /\ LoadSkipped({}, db) = skipped_hashes

\* a second hash is recorded, under a file name load_database does not recognise
C8_Witness ==
    /\ pc = "count_downloaded"
    /\ Cardinality(downloaded_hashes) = 2
    /\ FileHashes(files, db) = {}
    /\ img_hash \in LoadDownloaded({}, db)

\* C9 as stated: with an empty or missing JSON store, every file named <h>_<rest>
\* makes load_database report h, the part before the first "_", as Downloaded.
C9_Original ==
    (pc = "loaded" /\ db \in EmptyStores) =>
        \A f \in files : Contains(f, "_") => SplitFirst(f, "_") \in downloaded_hashes

HasImageSuffix(f) ==
    Len(f) >= 2 /\ f[Len(f) - 1] = "." /\ f[Len(f)] \in image_suffixes

\* C9 as amended: the same for the files whose name ends in .jpg, .jpeg, .png, .gif
\* or .webp as written (lower case); a file named otherwise contributes no entry,
\* and nothing is reported as skipped.
C9_Reconcile ==
    (pc = "loaded" /\ db \in EmptyStores) =>
        /\ \A f \in files :
              (Contains(f, "_") /\ HasImageSuffix(f))
                  => SplitFirst(f, "_") \in downloaded_hashes
        /\ \A h \in downloaded_hashes :
              \E f \in files :
                 /\ HasImageSuffix(f)
                 /\ h = SplitFirst(f, IF Contains(f, "_") THEN "_" ELSE ".")
        /\ skipped_hashes = {}

\* abc123_x.jpg in the folder, an empty store: abc123 is reported
C9_Witness ==
    /\ pc = "loaded"
    /\ db = CorruptDb
    /\ << "abc123", "_", "x", ".", "jpg" >> \in files
    /\ << "abc123" >> \in downloaded_hashes

\* C10: the file a committed download has just written is enough, with the JSON
\* store missing, for load_database to report its hash as Downloaded.
C10_CommitReconciles ==
    pc = "add_downloaded" => img_hash \in LoadDownloaded(files, NoDb)

\* C11: when the process is killed at any point, save_database included, the store
\* is not left in a state load_database treats as corrupt, and a load of what is then
\* on disk still yields every Downloaded and every too-small entry that a load
\* yielded before the interrupted write.
C11_CrashTolerant ==
    [][pc' = "crashed" =>
          /\ db'.kind # "corrupt"
          /\ LoadDownloaded(files, db) \subseteq LoadDownloaded(files', db')
          /\ LoadSkipped(files, db) \subseteq LoadSkipped(files', db')]_vars

\* C12: a save_database that raises after a hash was added to one of the sets ends
\* the session; it is not counted as a failure of the pin, with the loop going on to
\* its return-to-board step and the next pin.
C12_LedgerFailureFatal ==
    [][(pc \in {"save_skipped", "save_downloaded"})
          => (pc' # "return" \/ failed' # failed + 1)]_vars

\* C13: a pin whose transaction ends in a recoverable outcome is counted and the loop
\* goes on: every step that takes a transaction to its return-to-board step, or
\* finds the pin no longer available, increments a counter; the index moves only by
\* one, from the loop's head or its end; and the session ends only once every index
\* 0..total_pins-1 was visited.
C13_LoopContinues ==
    /\ [](pc = "done" => idx = total_pins)
    /\ [](pc \in (Running \ {"scroll", "final"}) => idx < total_pins)
    /\ [][(pc \in Running /\ pc' \in (Running \cup {"done"})) =>
            /\ (pc # "return" /\ pc' = "return")
                  => downloaded' + skipped' + skipped_small' + failed'
                        > downloaded + skipped + skipped_small + failed
            /\ (pc \in {"loop", "query"} /\ pc' \in {"loop", "done"})
                  => failed' = failed + 1 /\ idx' = idx + 1
            /\ (pc = "return") => pc' \in {"return", "concluded"}
            /\ (idx' # idx) => (idx' = idx + 1 /\ pc \in {"loop", "query", "concluded"})
            /\ (pc' = "done" /\ pc # "final") => idx' = total_pins]_vars

\* a session of two pins ended with the first pin failed and the second, visited
\* all the same, skipped as too small
C13_Witness ==
    /\ pc = "done" /\ run = 1
    /\ total_pins = 2 /\ idx = 2
    /\ failed = 1 /\ skipped_small = 1
    /\ Len(handed) = 1

\* the permanent files {hash}_{name} of hash h now in the output folder
PermanentFiles(h) == {f \in files : \E n \in Names : f = h \o << "_" >> \o n}

\* C14: every hash in downloaded_hashes (all of them were added by a transaction of
\* this session, or loaded from what an earlier one left) has its permanent file on
\* disk; the file is there before the hash is added and before the store is
\* rewritten with it; and while the session runs no step, failing or not, takes a
\* hash out of the set or a permanent file out of the folder.
C14_FileBeforeEntry ==
    /\ [](\A h \in downloaded_hashes : PermanentFiles(h) # {})
    /\ [](pc \in {"add_downloaded", "save_downloaded", "count_downloaded"}
            => PermanentFiles(img_hash) # {})
    /\ [](db.kind = "object" =>
            \A i \in 1..Len(db.downloaded) : PermanentFiles(db.downloaded[i]) # {})
    /\ [][(pc \in Running /\ pc' \in (Running \cup {"done"})) =>
            /\ downloaded_hashes \subseteq downloaded_hashes'
            /\ \A u \in Urls : PermanentFiles(get_image_hash(u)) \subseteq files']_vars

\* the first pin's download is committed, the second pin's transaction has failed:
\* entry and file are still there
C14_Witness ==
    /\ pc = "concluded" /\ idx = 1
    /\ downloaded = 1 /\ failed = 1
    /\ Cardinality(downloaded_hashes) = 1
    /\ \A h \in downloaded_hashes : PermanentFiles(h) # {} /\ h # img_hash
    /\ temp \in files

\* the hashes of the board's pins, pin by pin
InOrder == [i \in 1..Len(board) |-> get_image_hash(board[i])]

C16_OneCounterPerPin ==
    /\ pc = "concluded" => downloaded + skipped + skipped_small + failed = idx + 1
    /\ pc = "done" => downloaded + skipped + skipped_small + failed = total_pins

\* C17: a JSON store that is missing, unparsable, or parsable but malformed
\* contributes nothing: after load_database the downloaded set holds exactly the
\* hashes inferred from the folder's file names and the skipped set is empty.
C17_LoadAllOrNothing ==
    (pc = "loaded" /\ db.kind # "object") =>
        /\ downloaded_hashes =
              {hash_part(f) : f \in {g \in files : EndsWithImageSuffix(g)}}
        /\ skipped_hashes = {}

\* C18: once an operator interrupt was delivered to a run, at whatever step, the
\* session is over: the run is at its interrupted end, with no further page
\* interaction, download, ledger write or pin.
C18_InterruptUnwinds ==
    interrupted => pc = "interrupted"

\* the positions of a transaction whose detail view is open, before its return step
Detail == {"wait_img", "locate_more", "click_more", "locate_dl", "trigger",
           "measure", "remove", "add_skipped", "save_skipped", "count_small",
           "rename", "add_downloaded", "save_downloaded", "count_downloaded"}

\* C19: a transaction that opened a pin's detail view leaves it, whatever its
\* outcome, only into the return-to-board step (or the run ends there); the next pin
\* is selected only after that step; and a pin is queried and clicked only with the
\* page on the board.
C19_ReturnAlwaysRuns ==
    /\ [](pc = "query" => page = "board")
    /\ [](pc \in Detail => page \in Urls)
    /\ [][(pc \in Detail /\ pc' \notin Detail)
             => pc' \in {"return", "crashed", "interrupted"}]_vars
    /\ [][(pc' = "concluded" /\ pc # "concluded") => pc = "return"]_vars
    /\ [][(pc' = "wait_img" /\ pc # "wait_img")
             => (pc = "query" /\ page = "board" /\ page' \in Urls)]_vars
    /\ [][(pc \in {"return", "concluded"} /\ idx' # idx /\ pc' \in Running)
             => (pc = "concluded" /\ idx' = idx + 1)]_vars

\* the second pin is clicked, from the board, after the first pin's transaction
\* failed with its detail view open and its return step ran
C19_Witness ==
    /\ pc = "wait_img" /\ idx = 1
    /\ failed = 1 /\ Len(handed) = 1
    /\ page \in Urls
    /\ faults

\* C20: whatever the page renders, the discovery loop makes at most 100 iterations;
\* it is left as soon as 100 iterations were made or 5 iterations in a row observed
\* the pin count of the iteration before, or at the first error; an iteration counts
\* as unchanged exactly when the count equals the last one; and what is returned is
\* the pins rendered when the loop was left (nothing when that last query raises).
C20_BoundedDiscovery ==
    /\ [](scrolls <= max_scrolls /\ consecutive_no_change <= no_change_limit)
    /\ [](pc = "scroll" =>
            (scrolls < max_scrolls /\ consecutive_no_change < no_change_limit))
    /\ [][(scrolls' = scrolls + 1) =>
            /\ pc = "scroll"
            /\ last_count' = Count(dom)
            /\ consecutive_no_change' =
                  (IF Count(dom) = last_count THEN consecutive_no_change + 1 ELSE 0)
            /\ (pc' = "final") <=>
                  (scrolls' = max_scrolls \/ consecutive_no_change' = no_change_limit)]_vars
    /\ [][(pc = "scroll" /\ pc' = "final" /\ scrolls' = scrolls) => faults]_vars
    /\ [][(pc = "final" /\ pc' # "final") =>
            \/ total_pins' = Count(dom') /\ pc' = (IF total_pins' = 0 THEN "done" ELSE "loop")
            \/ faults /\ total_pins' = 0 /\ pc' = "done"]_vars

\* the hundredth iteration was made on a page whose pin count changed once more
C20_Witness ==
    /\ pc = "final"
    /\ scrolls = max_scrolls
    /\ consecutive_no_change = 0
    /\ Len(board) = 2

\* the positions of a transaction before its hash is added to one of the sets
BeforeAdd == {"locate_more", "click_more", "locate_dl", "trigger", "measure",
              "remove", "add_skipped", "rename", "add_downloaded"}

\* C21: the two sets, disjoint after load_database, are disjoint in every state of
\* the session; a step of the session adds to a set only the hash of the open pin,
\* and only when it is in neither set; a transaction gets past the reading of its
\* hash only with the hash in neither set; and a pin whose hash is in one of the sets
\* when it is read goes straight to its return step, counted as skipped, with no
\* menu click, download, file write or ledger write up to the next pin.
C21_SingleDisposition ==
    /\ [](downloaded_hashes \cap skipped_hashes = {})
    /\ [](pc \in BeforeAdd => img_hash \notin (downloaded_hashes \cup skipped_hashes))
    /\ [][(pc \in Running /\ pc' \in (Running \cup {"done"})) =>
            /\ (downloaded_hashes' # downloaded_hashes) =>
                  /\ img_hash \notin (downloaded_hashes \cup skipped_hashes)
                  /\ downloaded_hashes' = downloaded_hashes \cup {img_hash}
                  /\ skipped_hashes' = skipped_hashes
            /\ (skipped_hashes' # skipped_hashes) =>
                  /\ img_hash \notin (downloaded_hashes \cup skipped_hashes)
                  /\ skipped_hashes' = skipped_hashes \cup {img_hash}
                  /\ downloaded_hashes' = downloaded_hashes]_vars
    /\ [][(pc = "wait_img" /\ pc' \in (Running \ {"wait_img"})
                /\ img_hash' \in (downloaded_hashes \cup skipped_hashes))
             => /\ pc' = "return"
                /\ skipped' + skipped_small' = skipped + skipped_small + 1
                /\ UNCHANGED << files, db, downloaded_hashes, skipped_hashes,
                                downloaded, failed >>]_vars
    /\ [][(pc \in {"return", "concluded"} /\ pc' \in (Running \cup {"done"}))
             => UNCHANGED << files, db, downloaded_hashes, skipped_hashes >>]_vars

\* a second session, loaded with a Downloaded and a too-small entry, has read the
\* hash marked too small and gone to its return step
C21_Witness ==
    /\ run = 2 /\ pc = "return"
    /\ img_hash \in skipped_hashes
    /\ downloaded_hashes # {}
    /\ skipped_small = 1 /\ failed = 0 /\ downloaded = 0
    /\ db.kind = "object"

====
